---- MODULE Spec2Model ----
(***************************************************************************)
(* Model of LangModel (07-LM/lang_model.C): the constructor's training     *)
(* loop, count_sentence_ngrams, get_prob and get_prob_witten_bell.         *)
(*                                                                         *)
(* Token ids are small integers.  Id 0 is the epsilon entry of the symbol  *)
(* table, ids 1..3 are the reserved BOS/EOS/UNK tokens, the other ids are  *)
(* ordinary words.  An n-gram is a sequence of ids; an NGramCounter is a   *)
(* function from the n-grams it stores to their counts.                    *)
(***************************************************************************)
EXTENDS Integers, Sequences, FiniteSets, TLC

\* ---- bounds of the model ------------------------------------------------
MaxN == 2            \* largest model order "n" tried
MaxWords == 2        \* largest number of real words in a training line
MaxSentences == 2    \* largest number of lines in the training file

\* ---- vocabulary (SymbolTable, external) ----------------------------------
m_bosIdx == 1
m_eosIdx == 2
m_unkIdx == 3
Words == {4, 5}
ScenarioLine == <<4, 5, 6>>          \* "the cat sat"
Tokens == {m_bosIdx, m_eosIdx, m_unkIdx} \cup Words \cup {6}
SymTableSize == Cardinality(Tokens) + 1      \* epsilon included
vocSize == SymTableSize - 1
QueryTokens == {m_bosIdx, 4}                 \* ids used in get_prob calls

VARIABLES m_n, inStrm, readLines, m_predCounts, m_histCounts,
          m_histOnePlusCounts, pc, ngramArg, result

vars == <<m_n, inStrm, readLines, m_predCounts, m_histCounts,
          m_histOnePlusCounts, pc, ngramArg, result>>

\* ---- helpers --------------------------------------------------------------
Min(a, b) == IF a < b THEN a ELSE b

SeqsUpTo(S, n) == UNION {[1..k -> S] : k \in 0..n}

\* wordList[a .. b-1] with 0-based half-open iterator positions (vector::assign)
Range(wordList, a, b) == SubSeq(wordList, a + 1, b)

\* ---- NGramCounter ---------------------------------------------------------
EmptyCounter == [k \in {} |-> 0]

get_count(c, ngram) == IF ngram \in DOMAIN c THEN c[ngram] ELSE 0

incr_count(c, ngram) == (ngram :> (get_count(c, ngram) + 1)) @@ c

\* ---- convert_words_to_indices: (n-1) BOS, the words, one EOS --------------
convert_words_to_indices(words, n) ==
  [j \in 1..(n - 1) |-> m_bosIdx] \o words \o <<m_eosIdx>>

\* ---- count_sentence_ngrams -------------------------------------------------
\* Faulty variant of CountStep: the histOnePlusCounts increment is outside
\* the guard of line 103.
NoCountGuardedStep(cs, wordList, it, i) ==
  LET wordCnt == Len(wordList)
      last1 == Min(it + i, wordCnt)
      cut1_vector == Range(wordList, it, last1)
      pred1 == incr_count(cs.pred, cut1_vector)
      hist1 == IF last1 + 1 < wordCnt THEN incr_count(cs.hist, cut1_vector)
               ELSE cs.hist
  IN  IF (i > 0) /\ (get_count(pred1, cut1_vector) < 2)
      THEN [pred |-> pred1, hist |-> hist1,
            onePlus |-> incr_count(cs.onePlus,
                          Range(wordList, it, Min(it + i - 1, wordCnt)))]
      ELSE [pred |-> pred1, hist |-> hist1, onePlus |-> cs.onePlus]

\* Faulty variant of CountStep: histCounts is incremented only together with
\* histOnePlusCounts, on the first observation of the n-gram.
DistinctHistStep(cs, wordList, it, i) ==
  LET wordCnt == Len(wordList)
      last1 == Min(it + i, wordCnt)
      cut1_vector == Range(wordList, it, last1)
      pred1 == incr_count(cs.pred, cut1_vector)
  IN  IF last1 + 1 < wordCnt
      THEN IF (i > 0) /\ (get_count(pred1, cut1_vector) < 2)
           THEN [pred |-> pred1, hist |-> incr_count(cs.hist, cut1_vector),
                 onePlus |-> incr_count(cs.onePlus,
                                        Range(wordList, it, it + i - 1))]
           ELSE [pred |-> pred1, hist |-> cs.hist, onePlus |-> cs.onePlus]
      ELSE [pred |-> pred1, hist |-> cs.hist, onePlus |-> cs.onePlus]

\* Body of the inner loop (lines 99-110) for iterator position it (0-based)
\* and length i.  cs is the record of the three counters.  last1 + 1 <
\* wordList.end() is false when last1 is the end iterator.
CountStep(cs, wordList, it, i) ==
  LET wordCnt == Len(wordList)
      last1 == Min(it + i, wordCnt)
      cut1_vector == Range(wordList, it, last1)
      pred1 == incr_count(cs.pred, cut1_vector)
  IN  IF last1 + 1 < wordCnt
      THEN LET hist1 == incr_count(cs.hist, cut1_vector)
           IN  IF (i > 0) /\ (get_count(pred1, cut1_vector) < 2)
               THEN [pred |-> pred1, hist |-> hist1,
                     onePlus |-> incr_count(cs.onePlus,
                                            Range(wordList, it, it + i - 1))]
               ELSE [pred |-> pred1, hist |-> hist1, onePlus |-> cs.onePlus]
      ELSE [pred |-> pred1, hist |-> cs.hist, onePlus |-> cs.onePlus]

\* TLC passes operator arguments unevaluated, which nests the evaluation of
\* a loop's accumulator as deep as the loop is long.  Then(x, F) is F(x) with x
\* evaluated first.
Then(x, F(_)) == CHOOSE r \in {F(v) : v \in {x}} : TRUE

\* for (int i = 0; i <= m_n; i++)  (line 98)
RECURSIVE InnerLoop(_, _, _, _, _)
InnerLoop(cs, wordList, it, i, n) ==
  IF i > n THEN cs
  ELSE Then(CountStep(cs, wordList, it, i),
            LAMBDA c : InnerLoop(c, wordList, it, i + 1, n))

\* for (it = wordList.begin(); it != wordList.end(); it++)  (line 95)
RECURSIVE OuterLoop(_, _, _, _)
OuterLoop(cs, wordList, it, n) ==
  IF it = Len(wordList) THEN cs
  ELSE Then(InnerLoop(cs, wordList, it, 0, n),
            LAMBDA c : OuterLoop(c, wordList, it + 1, n))

count_sentence_ngrams(cs, wordList, n) == OuterLoop(cs, wordList, 0, n)

Counters == [pred |-> m_predCounts, hist |-> m_histCounts,
             onePlus |-> m_histOnePlusCounts]

EmptyCounters == [pred |-> EmptyCounter, hist |-> EmptyCounter,
                  onePlus |-> EmptyCounter]

\* The constructor's loop over a whole file, from empty counters.
RECURSIVE TrainFrom(_, _, _, _)
TrainFrom(cs, lines, j, n) ==
  IF j > Len(lines) THEN cs
  ELSE LET wordIdxList == convert_words_to_indices(lines[j], n)
       IN  Then(count_sentence_ngrams(cs, wordIdxList, n),
                LAMBDA c : TrainFrom(c, lines, j + 1, n))

TrainAll(cs, lines, n) == TrainFrom(cs, lines, 1, n)
\* ---- get_prob_witten_bell ---------------------------------------------------
\* What the code leaves undefined is an input of the evaluation:
\*   acc0, accOne0 : the uninitialised doubles acc_histCounts and
\*             acc_histOnePlusCounts (lines 148-149), to which the loop of
\*             lines 152-157 adds counts.  They can hold any double: the
\*             model takes 0 (a fresh stack), 1, and the value that cancels
\*             the counts added by the loop, so that the denominator of line
\*             168 can be zero or not whatever the counts are;
\*   fault   : what constructing a vector from an iterator range whose first
\*             lies behind its last does (lines 165, 171): the library throws
\*             length_error, or bad_alloc from the allocator;
\*   intDiv  : what the integer division by zero of line 172 does: the
\*             process dies of SIGFPE, or of SIGILL where the compiler has
\*             turned the path into a trap instruction, or the division
\*             yields a value and the loop goes on;
\*   garbage : the returned value, which is computed from lambda[m_n], one
\*             element past the array (lines 163, 180).
\* The floating-point divisions of lines 168 and 173 do not trap: 0.0/0.0 is
\* a NaN and the loop goes on.
RangeFaults == {"length_error", "bad_alloc"}
IntDivOutcomes == {"SIGFPE", "SIGILL", "continues"}
Signals == {"SIGFPE", "SIGILL"}
IndeterminateProb == {[num |-> 1, den |-> 2], [num |-> 3, den |-> 2]}

NoResult == [kind |-> "none", zeroDiv |-> FALSE, num |-> 0, den |-> 1]
Failure(k, zd) == [kind |-> k, zeroDiv |-> zd, num |-> 0, den |-> 1]

\* for (int k = 0; k < vocSize; k++) acc += counter.get_count([k])
\* (lines 152-157), starting from the accumulator's indeterminate value.
RECURSIVE AccLoop(_, _, _)
AccLoop(c, k, acc) ==
  IF k >= vocSize THEN acc
  ELSE AccLoop(c, k + 1, acc + get_count(c, <<k>>))

\* for (int i = 0; i < m_n+1; i++)  (lines 164-176), followed by the
\* interpolation loop and the return (lines 178-188).  accSum is
\* acc_histCounts + acc_histOnePlusCounts, the denominator of line 168.  zd
\* records whether a division has been evaluated with a zero denominator so
\* far (lines 168, 172, 173).
Indeterminate(added) == {0, 1, 0 - added}
UBChoices(cs) ==
  [acc0 : Indeterminate(AccLoop(cs.hist, 0, 0)),
   accOne0 : Indeterminate(AccLoop(cs.onePlus, 0, 0)),
   fault : RangeFaults, intDiv : IntDivOutcomes, garbage : IndeterminateProb]

RECURSIVE WBLoop(_, _, _, _, _, _, _)
WBLoop(cs, n, ngram, i, accSum, zd, ub) ==
  LET len == Len(ngram)
  IN
  IF i >= n + 1
  THEN [kind |-> "value", zeroDiv |-> zd,
        num |-> ub.garbage.num, den |-> ub.garbage.den]
  ELSE IF i > len THEN Failure(ub.fault, zd)                    \* c_iter
  ELSE IF (i + 1) = n
  THEN WBLoop(cs, n, ngram, i + 1, accSum, zd \/ (accSum = 0), ub)
  ELSE IF i + 1 > len THEN Failure(ub.fault, zd)                \* c_iter1
  ELSE LET c_iter == Range(ngram, i, len)
           c_iter1 == Range(ngram, i + 1, len)
           lambdaZero == get_count(cs.hist, c_iter)
                           + get_count(cs.onePlus, c_iter) = 0
       IN  IF get_count(cs.pred, c_iter1) = 0
           THEN IF ub.intDiv \in Signals THEN Failure(ub.intDiv, TRUE)
                ELSE WBLoop(cs, n, ngram, i + 1, accSum, TRUE, ub)
           ELSE WBLoop(cs, n, ngram, i + 1, accSum, zd \/ lambdaZero, ub)

get_prob_witten_bell(cs, n, ngram, ub) ==
  LET acc_histCounts == AccLoop(cs.hist, 0, ub.acc0)
      acc_histOnePlusCounts == AccLoop(cs.onePlus, 0, ub.accOne0)
  IN  WBLoop(cs, n, ngram, 0, acc_histCounts + acc_histOnePlusCounts,
             FALSE, ub)

\* ---- get_prob -----------------------------------------------------------------
\* Faulty variant of get_prob: the size test lets lengths 0 and n + 1 through.
UncheckedGetProb(cs, n, ngram, ub) ==
  IF Len(ngram) > n + 1
  THEN Failure("runtime_error", FALSE)
  ELSE get_prob_witten_bell(cs, n, ngram, ub)

get_prob(cs, n, ngram, ub) ==
  IF (Len(ngram) < 1) \/ (Len(ngram) > n)
  THEN Failure("runtime_error", FALSE)
  ELSE get_prob_witten_bell(cs, n, ngram, ub)

\* ---- the state machine ---------------------------------------------------------
Sentences == SeqsUpTo(Words, MaxWords)
TrainFiles == SeqsUpTo(Sentences, MaxSentences)

InitWith(orders, files) ==
  /\ m_n \in orders
  /\ inStrm \in files
  /\ readLines = <<>>
  /\ m_predCounts = EmptyCounter
  /\ m_histCounts = EmptyCounter
  /\ m_histOnePlusCounts = EmptyCounter
  /\ pc = "ctor"
  /\ ngramArg = <<>>
  /\ result = NoResult

Init == InitWith(1..MaxN, TrainFiles)

\* One iteration of the constructor's while loop (lines 25-33).
ReadLine ==
  /\ pc = "ctor"
  /\ inStrm # <<>>
  /\ LET wordIdxList == convert_words_to_indices(Head(inStrm), m_n)
         cs == count_sentence_ngrams(Counters, wordIdxList, m_n)
     IN  /\ m_predCounts' = cs.pred
         /\ m_histCounts' = cs.hist
         /\ m_histOnePlusCounts' = cs.onePlus
  /\ readLines' = Append(readLines, Head(inStrm))
  /\ inStrm' = Tail(inStrm)
  /\ UNCHANGED <<m_n, pc, ngramArg, result>>

\* inStrm.peek() == EOF: the constructor returns (lines 25, 35-37).
EndOfFile ==
  /\ pc = "ctor"
  /\ inStrm = <<>>
  /\ pc' = "ready"
  /\ UNCHANGED <<m_n, inStrm, readLines, m_predCounts, m_histCounts,
                 m_histOnePlusCounts, ngramArg, result>>

\* A call of get_prob on the constructed model (lines 191-195): result is what
\* the caller receives.  A signal ends the process.
GetProbOver(tokens) ==
  /\ pc = "ready"
  /\ \E ngram \in SeqsUpTo(tokens, m_n + 1), ub \in UBChoices(Counters) :
        /\ ngramArg' = ngram
        /\ result' = get_prob(Counters, m_n, ngram, ub)
  /\ pc' = IF result'.kind \in Signals THEN "killed" ELSE "returned"
  /\ UNCHANGED <<m_n, inStrm, readLines, m_predCounts, m_histCounts,
                 m_histOnePlusCounts>>

GetProb == GetProbOver(QueryTokens)

\* The caller has taken the result; the model is ready for the next call.
Return ==
  /\ pc = "returned"
  /\ pc' = "ready"
  /\ ngramArg' = <<>>
  /\ result' = NoResult
  /\ UNCHANGED <<m_n, inStrm, readLines, m_predCounts, m_histCounts,
                 m_histOnePlusCounts>>

Next == ReadLine \/ EndOfFile \/ GetProb \/ Return

Spec == Init /\ [][Next]_vars

\* The constructor alone: the training pass over the file.
NextTrain == ReadLine \/ EndOfFile
SpecTrain == Init /\ [][NextTrain]_vars

\* The model of order 2 trained on the single line "the cat sat", queried with
\* n-grams over the whole vocabulary.
InitScenario == InitWith({2}, {<<ScenarioLine>>})
GetProbAny == GetProbOver(Tokens)
NextScenario == ReadLine \/ EndOfFile \/ GetProbAny \/ Return
SpecScenario == InitScenario /\ [][NextScenario]_vars

\* ---- properties -----------------------------------------------------------------
pred(g) == get_count(m_predCounts, g)
hist(h) == get_count(m_histCounts, h)
onePlus(h) == get_count(m_histOnePlusCounts, h)

Histories == SeqsUpTo(Tokens, m_n - 1)
NGrams == SeqsUpTo(Tokens, m_n)
StoredKeys == (DOMAIN m_predCounts) \cup (DOMAIN m_histCounts)
                \cup (DOMAIN m_histOnePlusCounts)

RECURSIVE SumPred(_, _)
SumPred(h, ws) ==
  IF ws = {} THEN 0
  ELSE LET w == CHOOSE x \in ws : TRUE
       IN  pred(Append(h, w)) + SumPred(h, ws \ {w})

ValidQueryDone == result.kind # "none" /\ Len(ngramArg) \in 1..m_n

\* C1: flow conservation -- for every history h of length 0..N-1,
\* histCounts(h) is the sum over all tokens w of predCounts(h ++ [w]).
C1_FlowConservation ==
  \A h \in Histories : hist(h) = SumPred(h, Tokens)

\* C2: diversity bound -- for every history h,
\* 0 <= histOnePlusCounts(h) <= histCounts(h).
C2_DiversityBound ==
  \A h \in NGrams \cup StoredKeys : 0 <= onePlus(h) /\ onePlus(h) <= hist(h)

C2_Witness ==
  /\ pc # "ctor"
  /\ \E h \in Histories : onePlus(h) >= 1 /\ onePlus(h) < hist(h)
  /\ \E h \in Histories : onePlus(h) >= 1 /\ onePlus(h) = hist(h)

\* C3: histOnePlusCounts(h) is the number of distinct tokens w with
\* predCounts(h ++ [w]) >= 1, for every history h of length 0..N-1.
C3_DistinctContinuations ==
  \A h \in Histories :
     onePlus(h) = Cardinality({w \in Tokens : pred(Append(h, w)) >= 1})

\* C4: order 2, single line "the cat sat": the four bigrams have predCounts 1,
\* histCounts of the empty history is 5, histCounts([cat]) = 1 and
\* histOnePlusCounts([cat]) = 1.
C4_Scenario ==
  (pc # "ctor") =>
     /\ pred(<<m_bosIdx, 4>>) = 1
     /\ pred(<<4, 5>>) = 1
     /\ pred(<<5, 6>>) = 1
     /\ pred(<<6, m_eosIdx>>) = 1
     /\ hist(<<>>) = 5
     /\ hist(<<5>>) = 1
     /\ onePlus(<<5>>) = 1

\* C5: no get_prob call on an n-gram evaluates a division with a zero
\* denominator.
C5_NoDivisionByZero == ~ result.zeroDiv

\* C6: for every n-gram of length 1..N, get_prob returns a value p with
\* 0 < p <= 1.
C6_Range ==
  ValidQueryDone =>
     /\ result.kind = "value"
     /\ 0 < result.num
     /\ result.num <= result.den

\* C7: after training on an empty file all three counters are 0 for every key
\* and get_prob of every n-gram of length 1..N returns exactly 1/V.
C7_DegenerateCorpus ==
  (pc # "ctor" /\ readLines = <<>>) =>
     /\ \A g \in NGrams \cup StoredKeys :
           pred(g) = 0 /\ hist(g) = 0 /\ onePlus(g) = 0
     /\ ValidQueryDone =>
           (result.kind = "value" /\ result.num * vocSize = result.den)

\* Point-wise sum of two counters.
Plus(a, b) ==
  [k \in (DOMAIN a) \cup (DOMAIN b) |-> get_count(a, k) + get_count(b, k)]

FromEmpty(lines) == TrainAll(EmptyCounters, lines, m_n)
Prefix(k) == SubSeq(readLines, 1, k)
Suffix(k) == SubSeq(readLines, k + 1, Len(readLines))

\* C8 as stated: for every split of the lines read so far into A followed by
\* B, each of the three counters is the key-by-key sum of the counter obtained
\* from A alone and the counter obtained from B alone.
C8_AdditiveMerge ==
  \A k \in 0..Len(readLines) :
     LET a == FromEmpty(Prefix(k))
         b == FromEmpty(Suffix(k))
     IN  /\ m_predCounts = Plus(a.pred, b.pred)
         /\ m_histCounts = Plus(a.hist, b.hist)
         /\ m_histOnePlusCounts = Plus(a.onePlus, b.onePlus)

\* C8 amended: predCounts and histCounts are the key-by-key sums of the
\* counters obtained from A alone and from B alone, and so are the same when B
\* is read before A; histOnePlusCounts is, key by key, at most the sum.
C8_AdditivePredHist ==
  \A k \in 0..Len(readLines) :
     LET a == FromEmpty(Prefix(k))
         b == FromEmpty(Suffix(k))
         ba == FromEmpty(Suffix(k) \o Prefix(k))
     IN  /\ m_predCounts = Plus(a.pred, b.pred)
         /\ m_histCounts = Plus(a.hist, b.hist)
         /\ m_predCounts = ba.pred
         /\ m_histCounts = ba.hist
         /\ \A h \in NGrams \cup StoredKeys :
               onePlus(h) <= get_count(a.onePlus, h) + get_count(b.onePlus, h)

C8_Witness ==
  /\ pc # "ctor"
  /\ Len(readLines) = 2
  /\ readLines[1] # <<>> /\ readLines[2] # <<>>
  /\ LET a == FromEmpty(Prefix(1))
         b == FromEmpty(Suffix(1))
     IN  \E h \in Histories :
            /\ onePlus(h) >= 1
            /\ onePlus(h) < get_count(a.onePlus, h) + get_count(b.onePlus, h)

\* C9: get_prob on an n-gram of length 0 or of length greater than N fails
\* with the runtime_error without computing anything, and every get_prob call
\* leaves the three counters unchanged.
C9_InvalidSizeRejected ==
  [][(pc # "ctor") =>
       /\ Counters' = Counters
       /\ (pc = "ready" /\ Len(ngramArg') \notin 1..m_n) =>
             result' = Failure("runtime_error", FALSE)]_vars

C9_Witness ==
  /\ result.kind = "runtime_error"
  /\ Len(ngramArg) > m_n
  /\ m_predCounts # EmptyCounter

\* C10: for order N >= 2, predCounts(g) = 0 for every non-empty g whose last
\* token is the begin marker.
C10_BosNeverPredicted ==
  (m_n >= 2) =>
     \A g \in NGrams : (g # <<>> /\ g[Len(g)] = m_bosIdx) => pred(g) = 0
====
